---- MODULE Spec2Model ----
(***************************************************************************)
(* The shared MongoDB connection manager of TechtopiaAPI                   *)
(* (class DatabaseConnection), its callers, and the mongoose client it     *)
(* drives.  One JavaScript event loop: a macrotask (a caller's call, an    *)
(* I/O completion of the client, a lifecycle notification) runs only when  *)
(* the microtask queue `jobs` is empty; a settled promise queues the       *)
(* continuations of the async functions awaiting it, in registration       *)
(* order, and they run one by one before anything else.                    *)
(***************************************************************************)
EXTENDS Integers, Sequences, FiniteSets, TLC

\* Bounds of the model.
NumCallers == 2
MaxAttempts == 3

Callers == 1..NumCallers
Attempts == 1..MaxAttempts

(***************************************************************************)
(* process.env.MONGODB_URI.  A value is unset, or a string, kept as the    *)
(* sequence of its lexical pieces so that startsWith is computed.          *)
(***************************************************************************)
Unset == [set |-> FALSE, val |-> <<>>]
Str(s) == [set |-> TRUE, val |-> s]
UriSrv == Str(<<"mongodb", "+srv", "://", "cluster">>)
UriStd == Str(<<"mongodb", "://", "host">>)
UriHttp == Str(<<"http", "://", "host">>)
EnvValues == {Unset, Str(<<>>), UriHttp, UriStd, UriSrv}

startsWith(s, prefix) ==
    /\ Len(s) >= Len(prefix)
    /\ SubSeq(s, 1, Len(prefix)) = prefix

\* getConfig throws: `!uri` (undefined or the empty string), or neither scheme.
getConfigThrows(uri) ==
    \/ ~uri.set
    \/ uri.val = <<>>
    \/ /\ ~startsWith(uri.val, <<"mongodb", "+srv", "://">>)
       /\ ~startsWith(uri.val, <<"mongodb", "://">>)

\* readyStates of getConnectionStatus
readyStates(n) ==
    CASE n = 0 -> "disconnected"
      [] n = 1 -> "connected"
      [] n = 2 -> "connecting"
      [] n = 3 -> "disconnecting"
      [] OTHER -> "unknown"

VARIABLES
    isConnected,        \* DatabaseConnection.isConnected
    connectionPromise,  \* DatabaseConnection.connectionPromise: 0 is null, else the attempt
    envUri,             \* process.env.MONGODB_URI
    listenerRegs,       \* how many times the five lifecycle listeners were registered
    signalRegs,         \* how many times the SIGINT/SIGTERM handlers were registered
    readyState,         \* mongoose.connection.readyState
    nAttempts,          \* calls of mongoose.connect so far
    st,                 \* the promise each call of mongoose.connect returned
    awaiters,           \* the continuations registered on each such promise
    lastConnectUri,     \* the uri handed to the latest mongoose.connect
    dropped,            \* the client lost its session and is reconnecting by itself
    pc,                 \* where each caller's current call is suspended
    att,                \* the promise a caller's connect() awaits (0: none)
    entryConnected,     \* connect(): isConnected and readyState === 1 held at the call
    returned,           \* the latest call to end: what it was and what its caller got
    jobs,               \* the microtask queue
    handlerPc,          \* the health handler: the call of the manager it awaits
    handlerCalls,       \* the health handler: its calls of the manager so far
    response,           \* the latest response of the health handler
    shutdownPc,         \* gracefulShutdown: the call of the manager it awaits
    exitCode,           \* the argument of process.exit (Running until it is called)
    awaited             \* what the call the handler or gracefulShutdown awaits has handed back

mgr == <<isConnected, connectionPromise, listenerRegs, signalRegs>>
client == <<readyState, nAttempts, st, awaiters, lastConnectUri, dropped>>
procs == <<pc, att, entryConnected>>
vars == <<isConnected, connectionPromise, envUri, listenerRegs, signalRegs,
          readyState, nAttempts, st, awaiters, lastConnectUri, dropped,
          pc, att, entryConnected, returned, jobs,
          handlerPc, handlerCalls, response, shutdownPc, exitCode, awaited>>

\* The health handler and gracefulShutdown: the manager's collaborators.
collab == <<handlerPc, handlerCalls, response, shutdownPc, exitCode, awaited>>

\* The caller under which a collaborator calls the manager.
Handler == 1

\* exitCode while process.exit has not been called.
Running == -1

\* The body of a response of the health handler, and the calls of the manager
\* made for it.
Respond(code, success, isConn, state, pingSuccess, calls) ==
    [code |-> code, success |-> success,
     database |-> [isConnected |-> isConn, readyState |-> state,
                   pingSuccess |-> pingSuccess],
     calls |-> calls]

NoStatus == [isConnected |-> FALSE, readyState |-> 0, readyStateString |-> "none"]

\* What a call handed to its caller: the operation, the value or the error,
\* for connect() the promise it awaited and whether the manager was connected
\* when it was called, for disconnect() whether it closed the client, for
\* getConnectionStatus() the snapshot.
Return(op, value, a, e, closed, status) ==
    [op |-> op, value |-> value, att |-> a, entryConnected |-> e,
     closed |-> closed, status |-> status]

Init ==
    /\ isConnected = FALSE
    /\ connectionPromise = 0
    /\ envUri \in EnvValues
    /\ listenerRegs = 0
    /\ signalRegs = 0
    /\ readyState = 0
    /\ nAttempts = 0
    /\ st = [a \in Attempts |-> "unused"]
    /\ awaiters = [a \in Attempts |-> <<>>]
    /\ lastConnectUri = Unset
    /\ dropped = FALSE
    /\ pc = [p \in Callers |-> "idle"]
    /\ att = [p \in Callers |-> 0]
    /\ entryConnected = [p \in Callers |-> FALSE]
    /\ returned = Return("none", "none", 0, FALSE, FALSE, NoStatus)
    /\ jobs = <<>>
    /\ handlerPc = "none"
    /\ handlerCalls = <<>>
    /\ response = Respond(0, FALSE, FALSE, "none", FALSE, <<>>)
    /\ shutdownPc = "none"
    /\ exitCode = Running
    /\ awaited = "none"

RECURSIVE SetToSeq(_)
SetToSeq(S) ==
    IF S = {} THEN <<>>
    ELSE LET x == CHOOSE y \in S : \A z \in S : y <= z
         IN <<x>> \o SetToSeq(S \ {x})

Pending == {a \in Attempts : st[a] = "pending"}
Closing == {p \in Callers : pc[p] = "disc_closing"}
Deferred == {p \in Callers : pc[p] = "disc_wait"}

\* A listener registered by setupEventListeners runs only once it is registered.
Listening == listenerRegs > 0

\* A call of caller p ends: its caller gets r.
finish(p, r) ==
    /\ returned' = r
    /\ pc' = [pc EXCEPT ![p] = "idle"]
    /\ att' = [att EXCEPT ![p] = 0]
    /\ entryConnected' = [entryConnected EXCEPT ![p] = FALSE]

(***************************************************************************)
(* The mongoose client, as the manager drives it.                          *)
(***************************************************************************)

\* mongoose.connect(uri, options), called by caller p at line 149.  On a
\* connection that is already open the client starts nothing: it answers at
\* once, with the connection for the same uri and with an error for another.
\* Otherwise it starts an attempt and readyState becomes 2.
mongooseConnect(p, uri) ==
    LET a == nAttempts + 1 IN
    /\ nAttempts' = a
    /\ lastConnectUri' = uri
    /\ dropped' = dropped
    /\ IF readyState = 1
       THEN /\ st' = [st EXCEPT ![a] =
                        IF uri = lastConnectUri THEN "resolved" ELSE "rejected"]
            /\ readyState' = readyState
            /\ awaiters' = awaiters
            /\ jobs' = Append(jobs, p)
       ELSE /\ st' = [st EXCEPT ![a] = "pending"]
            /\ readyState' = 2
            /\ awaiters' = [awaiters EXCEPT ![a] = <<p>>]
            /\ jobs' = jobs

\* mongoose.disconnect(), called by caller p at line 185.  A close asked for
\* while the client is connecting is deferred until that attempt settles; one
\* asked for while another close runs ends with it.
mongooseDisconnect(p) ==
    /\ pc' = [pc EXCEPT ![p] = IF readyState = 2 THEN "disc_wait" ELSE "disc_closing"]
    /\ readyState' = IF readyState = 1 THEN 3 ELSE readyState

(***************************************************************************)
(* DatabaseConnection                                                      *)
(***************************************************************************)

\* setupEventListeners: five connection.on(...) and two process.on(...)
setupEventListeners ==
    /\ listenerRegs' = listenerRegs + 1
    /\ signalRegs' = signalRegs + 1

\* connectCatch without `this.connectionPromise = null`.
connectCatchKeepsPromise(p, error, a, e) ==
    /\ isConnected' = FALSE
    /\ connectionPromise' = connectionPromise
    /\ finish(p, Return("connect", error, a, e, FALSE, NoStatus))

\* The catch block of connect(): lines 168-178.
connectCatch(p, error, a, e) ==
    /\ isConnected' = FALSE
    /\ connectionPromise' = 0
    /\ finish(p, Return("connect", error, a, e, FALSE, NoStatus))

\* Lines 131-134: a promise is cached; await it.  A continuation on a promise
\* that is already settled is queued at once.
connectJoin(p) ==
    LET a == connectionPromise IN
    /\ att' = [att EXCEPT ![p] = a]
    /\ pc' = [pc EXCEPT ![p] = "conn_join"]
    /\ entryConnected' = [entryConnected EXCEPT ![p] = isConnected /\ readyState = 1]
    /\ IF st[a] = "pending"
       THEN /\ awaiters' = [awaiters EXCEPT ![a] = Append(@, p)]
            /\ jobs' = jobs
       ELSE /\ awaiters' = awaiters
            /\ jobs' = Append(jobs, p)
    /\ UNCHANGED <<mgr, readyState, nAttempts, st, lastConnectUri, dropped, returned>>

\* Lines 137-140: connected; return mongoose.
connectFast(p) ==
    /\ finish(p, Return("connect", "handle", 0, TRUE, FALSE, NoStatus))
    /\ UNCHANGED <<mgr, client, jobs>>

\* connectNew with setupEventListeners called before getConfig.
connectNewListensFirst(p) ==
    IF getConfigThrows(envUri)
    THEN /\ setupEventListeners
         /\ connectCatch(p, "ConfigError", 0, FALSE)
         /\ UNCHANGED <<client, jobs>>
    ELSE /\ nAttempts < MaxAttempts
         /\ setupEventListeners
         /\ mongooseConnect(p, envUri)
         /\ connectionPromise' = nAttempts + 1
         /\ att' = [att EXCEPT ![p] = nAttempts + 1]
         /\ pc' = [pc EXCEPT ![p] = "conn_own"]
         /\ UNCHANGED <<isConnected, entryConnected, returned>>

\* Lines 145-151: getConfig, setupEventListeners, mongoose.connect, await.
connectNew(p) ==
    IF getConfigThrows(envUri)
    THEN /\ connectCatch(p, "ConfigError", 0, FALSE)
         /\ UNCHANGED <<listenerRegs, signalRegs, client, jobs>>
    ELSE /\ nAttempts < MaxAttempts
         /\ setupEventListeners
         /\ mongooseConnect(p, envUri)
         /\ connectionPromise' = nAttempts + 1
         /\ att' = [att EXCEPT ![p] = nAttempts + 1]
         /\ pc' = [pc EXCEPT ![p] = "conn_own"]
         /\ UNCHANGED <<isConnected, entryConnected, returned>>

\* connect(), up to its first await or its return.
connect(p) ==
    /\ jobs = <<>>
    /\ pc[p] = "idle"
    /\ IF connectionPromise # 0 THEN connectJoin(p)
       ELSE IF isConnected /\ readyState = 1 THEN connectFast(p)
       ELSE connectNew(p)
    /\ UNCHANGED envUri

\* connectResume with the test of line 154 inverted.
connectResumeRejectsReady(p) ==
    LET a == att[p]
        e == entryConnected[p]
    IN
    IF st[a] = "rejected"
    THEN connectCatch(p, "ConnectionError", a, e)
    ELSE IF pc[p] = "conn_own" /\ readyState = 1
    THEN connectCatch(p, "NotReadyError", a, e)
    ELSE /\ finish(p, Return("connect", "handle", a, e, FALSE, NoStatus))
         /\ UNCHANGED <<isConnected, connectionPromise>>

\* connect() resumed after `await this.connectionPromise` (line 133 or 151).
connectResume(p) ==
    LET a == att[p]
        e == entryConnected[p]
    IN
    IF st[a] = "rejected"
    THEN connectCatch(p, "ConnectionError", a, e)
    ELSE IF pc[p] = "conn_own" /\ readyState # 1
    THEN connectCatch(p, "NotReadyError", a, e)         \* lines 154-156
    ELSE /\ finish(p, Return("connect", "handle", a, e, FALSE, NoStatus))
         /\ UNCHANGED <<isConnected, connectionPromise>>

\* disconnect without the test of readyState.
disconnectAlwaysCloses(p) ==
    /\ jobs = <<>>
    /\ pc[p] = "idle"
    /\ mongooseDisconnect(p)
    /\ UNCHANGED <<att, entryConnected, returned>>
    /\ UNCHANGED <<mgr, envUri, nAttempts, st, awaiters, lastConnectUri, dropped, jobs>>

\* disconnect(), up to its await or its return: lines 181-185.
disconnect(p) ==
    /\ jobs = <<>>
    /\ pc[p] = "idle"
    /\ IF readyState # 0
       THEN /\ mongooseDisconnect(p)
            /\ UNCHANGED <<att, entryConnected, returned>>
       ELSE /\ finish(p, Return("disconnect", "void", 0, FALSE, FALSE, NoStatus))
            /\ UNCHANGED readyState
    /\ UNCHANGED <<mgr, envUri, nAttempts, st, awaiters, lastConnectUri, dropped, jobs>>

\* disconnectResume without `this.connectionPromise = null`.
disconnectResumeKeepsPromise(p) ==
    IF pc[p] = "disc_ok"
    THEN /\ isConnected' = FALSE
         /\ connectionPromise' = connectionPromise
         /\ finish(p, Return("disconnect", "void", 0, FALSE, TRUE, NoStatus))
    ELSE /\ finish(p, Return("disconnect", "CloseError", 0, FALSE, FALSE, NoStatus))
         /\ UNCHANGED <<isConnected, connectionPromise>>

\* disconnectResume whose catch block resets the flag and the promise.
disconnectResumeResetsOnError(p) ==
    IF pc[p] = "disc_ok"
    THEN /\ isConnected' = FALSE
         /\ connectionPromise' = 0
         /\ finish(p, Return("disconnect", "void", 0, FALSE, TRUE, NoStatus))
    ELSE /\ isConnected' = FALSE
         /\ connectionPromise' = 0
         /\ finish(p, Return("disconnect", "CloseError", 0, FALSE, FALSE, NoStatus))

\* disconnect() resumed after `await mongoose.disconnect()`: lines 186-188,
\* or its catch block, lines 190-193.
disconnectResume(p) ==
    IF pc[p] = "disc_ok"
    THEN /\ isConnected' = FALSE
         /\ connectionPromise' = 0
         /\ finish(p, Return("disconnect", "void", 0, FALSE, TRUE, NoStatus))
    ELSE /\ finish(p, Return("disconnect", "CloseError", 0, FALSE, FALSE, NoStatus))
         /\ UNCHANGED <<isConnected, connectionPromise>>

\* getConnectionStatus that refreshes the flag from the client's readyState.
getConnectionStatusRefreshes(p) ==
    /\ jobs = <<>>
    /\ pc[p] = "idle"
    /\ isConnected' = (readyState = 1)
    /\ finish(p, Return("getConnectionStatus", "status", 0, FALSE, FALSE,
                        [isConnected |-> readyState = 1,
                         readyState |-> readyState,
                         readyStateString |-> readyStates(readyState)]))
    /\ UNCHANGED <<connectionPromise, listenerRegs, signalRegs, envUri, client, jobs>>

\* getConnectionStatus(): lines 196-219.
getConnectionStatus(p) ==
    /\ jobs = <<>>
    /\ pc[p] = "idle"
    /\ finish(p, Return("getConnectionStatus", "status", 0, FALSE, FALSE,
                        [isConnected |-> isConnected,
                         readyState |-> readyState,
                         readyStateString |-> readyStates(readyState)]))
    /\ UNCHANGED <<mgr, envUri, client, jobs>>

\* ping without the test of isConnected.
pingAlwaysProbes(p) ==
    /\ jobs = <<>>
    /\ pc[p] = "idle"
    /\ pc' = [pc EXCEPT ![p] = "ping_wait"]
    /\ UNCHANGED <<att, entryConnected, returned>>
    /\ UNCHANGED <<mgr, envUri, client, jobs>>

\* ping(), up to its await or its return: lines 222-228.
ping(p) ==
    /\ jobs = <<>>
    /\ pc[p] = "idle"
    /\ IF ~isConnected
       THEN finish(p, Return("ping", "false", 0, FALSE, FALSE, NoStatus))
       ELSE /\ pc' = [pc EXCEPT ![p] = "ping_wait"]
            /\ UNCHANGED <<att, entryConnected, returned>>
    /\ UNCHANGED <<mgr, envUri, client, jobs>>

\* ping() resumed after the probe: line 229, or its catch block, lines 230-233.
pingResume(p) ==
    /\ finish(p, Return("ping", IF pc[p] = "ping_ok" THEN "true" ELSE "false",
                        0, FALSE, FALSE, NoStatus))
    /\ UNCHANGED <<isConnected, connectionPromise>>

\* The next continuation of the microtask queue runs.
RunJob ==
    /\ jobs # <<>>
    /\ LET p == Head(jobs) IN
       /\ jobs' = Tail(jobs)
       /\ IF pc[p] \in {"conn_own", "conn_join"} THEN connectResume(p)
          ELSE IF pc[p] \in {"disc_ok", "disc_err"} THEN disconnectResume(p)
          ELSE pingResume(p)
    /\ UNCHANGED <<envUri, listenerRegs, signalRegs, client>>

(***************************************************************************)
(* What the client does by itself.  Each listener of setupEventListeners   *)
(* runs inside the event that the client emits.                            *)
(***************************************************************************)

onConnected == IF Listening THEN TRUE ELSE isConnected        \* lines 82-86
onError == IF Listening THEN FALSE ELSE isConnected           \* lines 88-95
\* The 'disconnected' listener without its assignment.
onDisconnectedKeepsFlag == isConnected
onDisconnected == IF Listening THEN FALSE ELSE isConnected    \* lines 97-100
onReconnected == IF Listening THEN TRUE ELSE isConnected      \* lines 102-105
onClose == IF Listening THEN FALSE ELSE isConnected           \* lines 108-111

\* An attempt succeeds: readyState 1, 'connected', the promise resolves.  A
\* deferred close then starts at once, before any continuation runs.
ConnectSucceeds(a) ==
    /\ jobs = <<>>
    /\ st[a] = "pending"
    /\ st' = [st EXCEPT ![a] = "resolved"]
    /\ isConnected' = onConnected
    /\ readyState' = IF Deferred # {} THEN 3 ELSE 1
    /\ dropped' = FALSE
    /\ pc' = [p \in Callers |-> IF p \in Deferred THEN "disc_closing" ELSE pc[p]]
    /\ jobs' = awaiters[a]
    /\ awaiters' = [awaiters EXCEPT ![a] = <<>>]
    /\ UNCHANGED <<connectionPromise, envUri, listenerRegs, signalRegs, nAttempts,
                   lastConnectUri, att, entryConnected, returned>>

\* An attempt fails: readyState 0, the promise rejects.
ConnectFails(a) ==
    /\ jobs = <<>>
    /\ st[a] = "pending"
    /\ st' = [st EXCEPT ![a] = "rejected"]
    /\ readyState' = 0
    /\ pc' = [p \in Callers |-> IF p \in Deferred THEN "disc_closing" ELSE pc[p]]
    /\ jobs' = awaiters[a]
    /\ awaiters' = [awaiters EXCEPT ![a] = <<>>]
    /\ UNCHANGED <<mgr, envUri, nAttempts, lastConnectUri, dropped,
                   att, entryConnected, returned>>

\* The close ends: readyState 0, 'disconnected' and 'close', and every
\* mongoose.disconnect() waiting for it resolves.
CloseCompletes ==
    /\ jobs = <<>>
    /\ Closing # {}
    /\ readyState' = 0
    /\ isConnected' = onClose
    /\ dropped' = FALSE
    /\ pc' = [p \in Callers |-> IF p \in Closing THEN "disc_ok" ELSE pc[p]]
    /\ jobs' = SetToSeq(Closing)
    /\ UNCHANGED <<connectionPromise, envUri, listenerRegs, signalRegs, nAttempts, st,
                   awaiters, lastConnectUri, att, entryConnected, returned>>

\* The close fails: mongoose.disconnect() rejects.
CloseFails(p) ==
    /\ jobs = <<>>
    /\ pc[p] = "disc_closing"
    /\ pc' = [pc EXCEPT ![p] = "disc_err"]
    /\ jobs' = <<p>>
    /\ UNCHANGED <<mgr, envUri, client, att, entryConnected, returned>>

\* The probe of ping() answers, or fails.
ProbeSucceeds(p) ==
    /\ jobs = <<>>
    /\ pc[p] = "ping_wait"
    /\ pc' = [pc EXCEPT ![p] = "ping_ok"]
    /\ jobs' = <<p>>
    /\ UNCHANGED <<mgr, envUri, client, att, entryConnected, returned>>

ProbeFails(p) ==
    /\ jobs = <<>>
    /\ pc[p] = "ping_wait"
    /\ pc' = [pc EXCEPT ![p] = "ping_err"]
    /\ jobs' = <<p>>
    /\ UNCHANGED <<mgr, envUri, client, att, entryConnected, returned>>

\* 'error' on an open connection.
EmitError ==
    /\ jobs = <<>>
    /\ readyState = 1
    /\ isConnected' = onError
    /\ UNCHANGED <<connectionPromise, envUri, listenerRegs, signalRegs, client,
                   procs, returned, jobs>>

\* The session drops: readyState 0 and 'disconnected'.
EmitDisconnected ==
    /\ jobs = <<>>
    /\ readyState = 1
    /\ readyState' = 0
    /\ dropped' = TRUE
    /\ isConnected' = onDisconnected
    /\ UNCHANGED <<connectionPromise, envUri, listenerRegs, signalRegs, nAttempts, st,
                   awaiters, lastConnectUri, procs, returned, jobs>>

\* The client recovers the session: readyState 1, 'connected' and 'reconnected'.
EmitReconnected ==
    /\ jobs = <<>>
    /\ dropped
    /\ readyState = 0
    /\ readyState' = 1
    /\ dropped' = FALSE
    /\ isConnected' = onReconnected
    /\ UNCHANGED <<connectionPromise, envUri, listenerRegs, signalRegs, nAttempts, st,
                   awaiters, lastConnectUri, procs, returned, jobs>>

\* The environment variable changes.
SetEnv(u) ==
    /\ jobs = <<>>
    /\ u # envUri
    /\ envUri' = u
    /\ UNCHANGED <<mgr, client, procs, returned, jobs>>

Next ==
    \/ \E p \in Callers : connect(p) /\ UNCHANGED collab
    \/ \E p \in Callers : disconnect(p) /\ UNCHANGED collab
    \/ \E p \in Callers : getConnectionStatus(p) /\ UNCHANGED collab
    \/ \E p \in Callers : ping(p) /\ UNCHANGED collab
    \/ RunJob /\ UNCHANGED collab
    \/ \E a \in Attempts : ConnectSucceeds(a) /\ UNCHANGED collab
    \/ \E a \in Attempts : ConnectFails(a) /\ UNCHANGED collab
    \/ CloseCompletes /\ UNCHANGED collab
    \/ \E p \in Callers : CloseFails(p) /\ UNCHANGED collab
    \/ \E p \in Callers : ProbeSucceeds(p) /\ UNCHANGED collab
    \/ \E p \in Callers : ProbeFails(p) /\ UNCHANGED collab
    \/ EmitError /\ UNCHANGED collab
    \/ EmitDisconnected /\ UNCHANGED collab
    \/ EmitReconnected /\ UNCHANGED collab

Spec == Init /\ [][Next]_vars

\* The same program in a process whose environment variable is rewritten
\* while it runs.
NextEnv ==
    \/ Next
    \/ \E u \in EnvValues : SetEnv(u) /\ UNCHANGED collab

SpecEnv == Init /\ [][NextEnv]_vars

(***************************************************************************)
(* The collaborators of the manager.  Each calls the manager as caller     *)
(* Handler and awaits the call; its own continuation is a microtask queued *)
(* when the call ends, so it runs once the queue has drained and before    *)
(* any macrotask.                                                          *)
(***************************************************************************)

\* What the call a collaborator has just made, or that has just resumed,
\* hands back: nothing yet while the call is suspended.
outcome == IF pc'[Handler] = "idle" THEN returned'.value ELSE "pending"

Threw(v) == v \in {"ConfigError", "ConnectionError", "NotReadyError", "CloseError"}

\* The continuation of a collaborator is queued.
CollaboratorReady ==
    /\ handlerPc # "none" \/ shutdownPc = "disconnect"
    /\ pc[Handler] = "idle"

\* req.method
Methods == {"GET", "POST", "OPTIONS"}

\* The handler ends: res.status(code).json(body).
handlerResponds(r) ==
    /\ response' = r
    /\ handlerPc' = "none"
    /\ handlerCalls' = <<>>
    /\ awaited' = "none"
    /\ UNCHANGED <<shutdownPc, exitCode>>

\* handler(req, res), up to its first await or its return: lines 242-262.
handler(method) ==
    /\ jobs = <<>>
    /\ handlerPc = "none"
    /\ IF method # "GET"
       THEN /\ handlerResponds(Respond(405, FALSE, FALSE, "none", FALSE, handlerCalls))
            /\ UNCHANGED <<mgr, envUri, client, procs, returned, jobs>>
       ELSE /\ connect(Handler)
            /\ handlerPc' = "connect"
            /\ handlerCalls' = Append(handlerCalls, "connect")
            /\ awaited' = outcome
            /\ UNCHANGED <<response, shutdownPc, exitCode>>

\* handlerAfterConnect that calls ping() whatever connect() did.
handlerAfterConnectIgnoresError ==
    /\ jobs = <<>>
    /\ handlerPc = "connect"
    /\ pc[Handler] = "idle"
    /\ ping(Handler)
    /\ handlerPc' = "ping"
    /\ handlerCalls' = Append(handlerCalls, "ping")
    /\ awaited' = outcome
    /\ UNCHANGED <<response, shutdownPc, exitCode>>

\* The handler resumed after `await db.connect()`: the catch block, lines
\* 284-300, or the call of ping(), line 265.
handlerAfterConnect ==
    /\ jobs = <<>>
    /\ handlerPc = "connect"
    /\ pc[Handler] = "idle"
    /\ IF Threw(awaited)
       THEN /\ handlerResponds(Respond(503, FALSE, FALSE, "none", FALSE, handlerCalls))
            /\ UNCHANGED <<mgr, envUri, client, procs, returned, jobs>>
       ELSE /\ ping(Handler)
            /\ handlerPc' = "ping"
            /\ handlerCalls' = Append(handlerCalls, "ping")
            /\ awaited' = outcome
            /\ UNCHANGED <<response, shutdownPc, exitCode>>

\* The handler resumed after `await db.ping()`: lines 265-282.
handlerAfterPing ==
    /\ jobs = <<>>
    /\ handlerPc = "ping"
    /\ pc[Handler] = "idle"
    /\ getConnectionStatus(Handler)
    /\ handlerResponds(Respond(200, TRUE,
                               returned'.status.isConnected,
                               returned'.status.readyStateString,
                               awaited = "true",
                               Append(handlerCalls, "getConnectionStatus")))

\* The next continuation of the microtask queue runs; when it ends the call
\* of a collaborator, the collaborator is handed what the call returned or
\* threw.
RunJobAwaited ==
    /\ RunJob
    /\ awaited' = IF Head(jobs) = Handler THEN outcome ELSE awaited
    /\ UNCHANGED <<handlerPc, handlerCalls, response, shutdownPc, exitCode>>

\* The callers other than the collaborator.
Others == Callers \ {Handler}

\* A macrotask that is none of the collaborator's: it runs when no
\* continuation of the collaborator is queued, and while the process runs.
Macrotask ==
    /\ ~CollaboratorReady
    /\ exitCode = Running
    /\ UNCHANGED collab

\* The health endpoint beside other callers of the manager.
NextHealth ==
    \/ \E method \in Methods : ~CollaboratorReady /\ handler(method)
    \/ handlerAfterConnect
    \/ handlerAfterPing
    \/ RunJobAwaited
    \/ \E p \in Others : connect(p) /\ Macrotask
    \/ \E p \in Others : disconnect(p) /\ Macrotask
    \/ \E p \in Others : ping(p) /\ Macrotask
    \/ \E a \in Attempts : ConnectSucceeds(a) /\ Macrotask
    \/ \E a \in Attempts : ConnectFails(a) /\ Macrotask
    \/ CloseCompletes /\ Macrotask
    \/ \E p \in Others : CloseFails(p) /\ Macrotask
    \/ \E p \in Callers : ProbeSucceeds(p) /\ Macrotask
    \/ \E p \in Callers : ProbeFails(p) /\ Macrotask
    \/ EmitError /\ Macrotask
    \/ EmitDisconnected /\ Macrotask
    \/ EmitReconnected /\ Macrotask

SpecHealth == Init /\ [][NextHealth]_vars

\* gracefulShutdown, run by SIGINT or SIGTERM once process.on has registered
\* it, up to its await: lines 114-116.
gracefulShutdown ==
    /\ jobs = <<>>
    /\ signalRegs > 0
    /\ shutdownPc = "none"
    /\ disconnect(Handler)
    /\ shutdownPc' = "disconnect"
    /\ awaited' = outcome
    /\ UNCHANGED <<handlerPc, handlerCalls, response, exitCode>>

\* gracefulShutdownResume that calls process.exit(0) in its catch block too.
gracefulShutdownResumeExitsZero ==
    /\ jobs = <<>>
    /\ shutdownPc = "disconnect"
    /\ pc[Handler] = "idle"
    /\ exitCode' = 0
    /\ shutdownPc' = "exited"
    /\ UNCHANGED <<mgr, envUri, client, procs, returned, jobs,
                   handlerPc, handlerCalls, response, awaited>>

\* gracefulShutdown resumed after `await this.disconnect()`: process.exit(0),
\* line 116, or the catch block and process.exit(1), lines 117-120.
gracefulShutdownResume ==
    /\ jobs = <<>>
    /\ shutdownPc = "disconnect"
    /\ pc[Handler] = "idle"
    /\ exitCode' = IF Threw(awaited) THEN 1 ELSE 0
    /\ shutdownPc' = "exited"
    /\ UNCHANGED <<mgr, envUri, client, procs, returned, jobs,
                   handlerPc, handlerCalls, response, awaited>>

\* The process with its signal handlers, beside other callers of the
\* manager.  Nothing runs after process.exit.
NextShutdown ==
    \/ gracefulShutdown /\ ~CollaboratorReady /\ exitCode = Running
    \/ gracefulShutdownResume
    \/ RunJobAwaited
    \/ \E p \in Others : connect(p) /\ Macrotask
    \/ \E p \in Others : disconnect(p) /\ Macrotask
    \/ \E p \in Others : ping(p) /\ Macrotask
    \/ \E a \in Attempts : ConnectSucceeds(a) /\ Macrotask
    \/ \E a \in Attempts : ConnectFails(a) /\ Macrotask
    \/ CloseCompletes /\ Macrotask
    \/ \E p \in Callers : CloseFails(p) /\ Macrotask
    \/ \E p \in Others : ProbeSucceeds(p) /\ Macrotask
    \/ \E p \in Others : ProbeFails(p) /\ Macrotask
    \/ EmitError /\ Macrotask
    \/ EmitDisconnected /\ Macrotask
    \/ EmitReconnected /\ Macrotask

\* The event loop runs every queued continuation, and the client ends every
\* attempt (serverSelectionTimeoutMS, connectTimeoutMS) and every close it
\* has started.
SpecShutdown ==
    /\ Init
    /\ [][NextShutdown]_vars
    /\ WF_vars(RunJobAwaited)
    /\ WF_vars(gracefulShutdownResume)
    /\ SF_vars(\E a \in Attempts : (ConnectSucceeds(a) \/ ConnectFails(a)) /\ Macrotask)
    /\ SF_vars(CloseCompletes /\ Macrotask)

(***************************************************************************)
(* The manager's state, as its claims name it.                             *)
(***************************************************************************)
Connected == isConnected
ClientLive == readyState = 1
Disconnected == ~isConnected /\ readyState = 0
InConnect(p) == pc[p] \in {"conn_own", "conn_join"}
RecognizedUris == {UriStd, UriSrv}

(***************************************************************************)
(* C1: connect() calls that overlap, issued from Disconnected with a valid *)
(* URI, share one underlying attempt (the callers suspended in connect()   *)
(* all await the same promise of mongoose.connect), and each of them gets  *)
(* the outcome of that attempt: the handle when it succeeded, the          *)
(* connection error when it failed.                                        *)
(***************************************************************************)
C1_OneAttemptOneOutcome ==
    /\ \A p, q \in Callers :
          InConnect(p) /\ InConnect(q) => att[p] = att[q]
    /\ returned.op = "connect" /\ returned.att # 0 =>
          \/ returned.value = "handle" /\ st[returned.att] = "resolved"
          \/ returned.value = "ConnectionError" /\ st[returned.att] = "rejected"

(***************************************************************************)
(* C2: in every reachable state at most one underlying connection          *)
(* establishment is in flight: at most one promise returned by             *)
(* mongoose.connect is pending.                                            *)
(***************************************************************************)
C2_AtMostOneInFlight == Cardinality(Pending) <= 1

(***************************************************************************)
(* C3: a lifecycle notification ('error', 'disconnected') after a          *)
(* successful connect() starts no attempt by itself, and the next          *)
(* connect(), called with the handle of that connect still cached and the  *)
(* flag flipped by the notification, starts a new underlying attempt.      *)
(***************************************************************************)
AfterNotification ==
    /\ connectionPromise # 0
    /\ st[connectionPromise] = "resolved"
    /\ ~isConnected
    /\ Closing = {}

C3_NextConnectReestablishes ==
    [][/\ EmitError \/ EmitDisconnected => nAttempts' = nAttempts
       /\ \A p \in Callers :
            connect(p) /\ AfterNotification /\ envUri \in RecognizedUris
               => nAttempts' = nAttempts + 1]_vars

(***************************************************************************)
(* C4: connect() called while Connected, the client reporting a live       *)
(* session, calls mongoose.connect zero times, registers no observer and   *)
(* returns the cached handle.                                              *)
(***************************************************************************)
C4_ConnectedFastPath ==
    [][/\ \A p \in Callers :
            connect(p) /\ Connected /\ ClientLive
               => /\ nAttempts' = nAttempts
                  /\ listenerRegs' = listenerRegs
                  /\ signalRegs' = signalRegs
       /\ returned' # returned /\ returned'.op = "connect"
             /\ returned'.entryConnected
               => returned'.value = "handle"]_vars

(***************************************************************************)
(* C5: when the underlying attempt fails, connect() fails with the         *)
(* connection error of that attempt for every caller awaiting it, leaves   *)
(* the manager Disconnected with the in-flight marker cleared, and a       *)
(* connect() called on the manager as that failure left it starts a fresh  *)
(* underlying attempt.                                                     *)
(***************************************************************************)
ResumesOnRejected ==
    /\ jobs # <<>>
    /\ InConnect(Head(jobs))
    /\ st[att[Head(jobs)]] = "rejected"

C5_FailedAttempt ==
    [][/\ ResumesOnRejected
            => /\ returned'.op = "connect"
               /\ returned'.value = "ConnectionError"
               /\ returned'.att = att[Head(jobs)]
               /\ Disconnected'
               /\ connectionPromise' = 0
       /\ \A p \in Callers :
            /\ connect(p)
            /\ returned.op = "connect" /\ returned.value = "ConnectionError"
            /\ Disconnected /\ connectionPromise = 0
            /\ envUri \in RecognizedUris
            => /\ nAttempts' = nAttempts + 1
               /\ connectionPromise' = nAttempts'
               /\ st'[nAttempts'] = "pending"]_vars

\* An attempt failed, the retry started a second attempt, and that one failed.
C5_Witness ==
    /\ returned.op = "connect" /\ returned.value = "ConnectionError"
    /\ returned.att = 2
    /\ st[1] = "rejected" /\ st[2] = "rejected"
    /\ Disconnected /\ connectionPromise = 0

(***************************************************************************)
(* C6: connect() that reaches the validation of the URI (nothing cached,   *)
(* not connected) with a URI that is absent or starts with no recognized   *)
(* scheme fails with the configuration error and has no other effect:      *)
(* mongoose.connect is not called, no lifecycle observer and no signal     *)
(* handler is registered, no in-flight attempt is recorded.                *)
(***************************************************************************)
C6_InvalidUri ==
    [][\A p \in Callers :
         /\ connect(p)
         /\ connectionPromise = 0 /\ ~(Connected /\ ClientLive)
         /\ envUri \notin RecognizedUris
         => /\ returned' = Return("connect", "ConfigError", 0, FALSE, FALSE, NoStatus)
            /\ pc'[p] = "idle"
            /\ nAttempts' = nAttempts
            /\ st' = st
            /\ listenerRegs' = listenerRegs
            /\ signalRegs' = signalRegs
            /\ connectionPromise' = 0
            /\ readyState' = readyState]_vars

\* The URI became invalid after a first attempt, and connect() refused it.
C6_Witness ==
    /\ returned.op = "connect" /\ returned.value = "ConfigError"
    /\ nAttempts = 1
    /\ listenerRegs = 1 /\ signalRegs = 1
    /\ connectionPromise = 0
    /\ envUri = UriHttp

(***************************************************************************)
(* C7: disconnect() called on a Disconnected manager returns without       *)
(* error, does not call mongoose.disconnect, and leaves the manager        *)
(* Disconnected.                                                           *)
(***************************************************************************)
C7_DisconnectIdempotent ==
    [][\A p \in Callers :
         disconnect(p) /\ Disconnected
         => /\ returned' = Return("disconnect", "void", 0, FALSE, FALSE, NoStatus)
            /\ pc'[p] = "idle"
            /\ Disconnected'
            /\ UNCHANGED <<isConnected, connectionPromise, readyState>>]_vars

\* No attempt ever completed (the only one failed), and disconnect() returned
\* without closing anything.
C7_Witness ==
    /\ returned = Return("disconnect", "void", 0, FALSE, FALSE, NoStatus)
    /\ nAttempts = 1 /\ st[1] = "rejected"
    /\ Disconnected
    /\ \A p \in Callers : pc[p] = "idle"

(***************************************************************************)
(* C8: when disconnect() resumes after a mongoose.disconnect() that        *)
(* succeeded, the manager is Disconnected and the cached promise is        *)
(* cleared; a connect() called on the manager as that left it starts       *)
(* exactly one new underlying attempt.                                     *)
(***************************************************************************)
C8_DisconnectThenConnect ==
    [][/\ jobs # <<>> /\ pc[Head(jobs)] = "disc_ok"
            => /\ returned' = Return("disconnect", "void", 0, FALSE, TRUE, NoStatus)
               /\ Disconnected'
               /\ connectionPromise' = 0
       /\ \A p \in Callers :
            /\ connect(p)
            /\ returned.op = "disconnect" /\ returned.closed
            /\ ~isConnected /\ connectionPromise = 0
            /\ envUri \in RecognizedUris
            => /\ nAttempts' = nAttempts + 1
               /\ connectionPromise' = nAttempts'
               /\ Cardinality({a \in Attempts : st'[a] # st[a]}) = 1]_vars

\* Connected, closed by disconnect(), and the connect() after it has started
\* the second attempt.
C8_Witness ==
    /\ returned.op = "disconnect" /\ returned.closed
    /\ st[1] = "resolved" /\ st[2] = "pending"
    /\ nAttempts = 2 /\ connectionPromise = 2
    /\ \E p \in Callers : pc[p] = "conn_own" /\ att[p] = 2

C10_StatusIsPure ==
    [][\A p \in Callers :
         getConnectionStatus(p)
         => /\ UNCHANGED <<isConnected, connectionPromise, listenerRegs, signalRegs,
                           readyState, nAttempts, st, awaiters, dropped, jobs>>
            /\ pc'[p] = "idle"
            /\ returned'.op = "getConnectionStatus"
            /\ returned'.status.isConnected = isConnected
            /\ returned'.status.readyState = readyState]_vars

\* A snapshot taken while an attempt is pending: it shows "connecting", and
\* the attempt is still the only one.
C10_Witness ==
    /\ returned.op = "getConnectionStatus"
    /\ returned.status.readyStateString = "connecting"
    /\ ~returned.status.isConnected
    /\ nAttempts = 1 /\ st[1] = "pending" /\ readyState = 2

(***************************************************************************)
(* C11: in every reachable state the flag isConnected is true if and only  *)
(* if mongoose.connection.readyState is 1 (connected).                     *)
(***************************************************************************)
C11_FlagMirrorsReadyState == isConnected <=> (readyState = 1)

(***************************************************************************)
(* C12: in every reachable state a non-null connectionPromise is the       *)
(* promise of an attempt that is still pending, or that has just settled   *)
(* and whose outcome a connect() is still to receive: once connect() has   *)
(* succeeded or failed, the marker is cleared.                             *)
(***************************************************************************)
C12_MarkerOnlyWhilePending ==
    connectionPromise # 0 =>
        \/ st[connectionPromise] = "pending"
        \/ \E p \in Callers : InConnect(p) /\ att[p] = connectionPromise

(***************************************************************************)
(* C13: each lifecycle notification of the client updates the flag by      *)
(* itself: 'connected' and 'reconnected' set it, 'error', 'disconnected'   *)
(* and 'close' clear it, and getConnectionStatus() reports the flag as the *)
(* notification left it.  A notification that is no completion of a call   *)
(* ('error', a dropped session, a recovered session) leaves every call in  *)
(* flight where it is: no continuation is queued, nothing is returned or   *)
(* thrown, the cached promise and the promises of mongoose.connect are     *)
(* untouched.                                                              *)
(***************************************************************************)
C13_NotificationsUpdateState ==
    [][/\ (\E a \in Attempts : ConnectSucceeds(a)) => isConnected'
       /\ EmitReconnected => isConnected'
       /\ CloseCompletes => ~isConnected'
       /\ EmitError \/ EmitDisconnected => ~isConnected'
       /\ EmitError \/ EmitDisconnected \/ EmitReconnected
            => UNCHANGED <<pc, att, entryConnected, returned, jobs,
                           connectionPromise, st, awaiters, nAttempts>>
       /\ \A p \in Callers :
            getConnectionStatus(p)
               => returned'.status.isConnected = isConnected]_vars

\* The session dropped while a ping() was waiting for its probe; the ping()
\* still waits, and getConnectionStatus() reported the state after the drop.
C13_Witness ==
    /\ dropped
    /\ returned.op = "getConnectionStatus"
    /\ ~returned.status.isConnected
    /\ returned.status.readyStateString = "disconnected"
    /\ \E p \in Callers : pc[p] = "ping_wait"

(***************************************************************************)
(* C14: when an attempt started with a valid URI succeeds and no close was *)
(* asked for meanwhile, the client is ready, the manager is Connected and  *)
(* the connect() that started the attempt is the next to run; resumed so,  *)
(* it returns the handle and leaves the manager Connected;                 *)
(* getConnectionStatus() called then reports connected, and a ping()       *)
(* called then probes the store and returns true when the probe succeeds.  *)
(***************************************************************************)
OwnerResumesReady ==
    /\ jobs # <<>>
    /\ pc[Head(jobs)] = "conn_own"
    /\ st[att[Head(jobs)]] = "resolved"
    /\ Connected /\ ClientLive

JustConnected ==
    /\ returned.op = "connect" /\ returned.value = "handle"
    /\ Connected /\ ClientLive

C14_ConnectThenStatusThenPing ==
    [][/\ \A a \in Attempts :
            ConnectSucceeds(a) /\ Deferred = {}
               => /\ lastConnectUri \in RecognizedUris
                  /\ OwnerResumesReady'
                  /\ att'[Head(jobs')] = a
       /\ OwnerResumesReady
            => /\ returned'.op = "connect"
               /\ returned'.value = "handle"
               /\ returned'.att = att[Head(jobs)]
               /\ JustConnected'
       /\ \A p \in Callers :
            getConnectionStatus(p) /\ JustConnected
               => /\ returned'.status.isConnected
                  /\ returned'.status.readyStateString = "connected"
       /\ \A p \in Callers :
            ping(p) /\ JustConnected => pc'[p] = "ping_wait"
       /\ jobs # <<>> /\ pc[Head(jobs)] = "ping_ok"
            => returned'.op = "ping" /\ returned'.value = "true"]_vars

\* connect() returned the handle of the first attempt, getConnectionStatus()
\* reported connected, and the ping() after it returned true.
C14_Witness ==
    /\ returned.op = "ping" /\ returned.value = "true"
    /\ nAttempts = 1 /\ st[1] = "resolved" /\ connectionPromise = 1
    /\ Connected /\ ClientLive
    /\ \A p \in Callers : pc[p] = "idle"

(***************************************************************************)
(* C15: the configuration is resolved once.  A connect() called after the  *)
(* first attempt never fails the validation of the URI, and an attempt it  *)
(* starts is handed the URI the earlier attempts were handed, whatever     *)
(* process.env.MONGODB_URI has become since.                               *)
(***************************************************************************)
C15_ConfigResolvedOnce ==
    [][\A p \in Callers :
         connect(p) /\ nAttempts >= 1
            => /\ ~(returned' # returned /\ returned'.value = "ConfigError")
               /\ nAttempts' # nAttempts => lastConnectUri' = lastConnectUri]_vars

(***************************************************************************)
(* C17: in every reachable state the five lifecycle listeners and the two  *)
(* signal handlers have been registered at most once.                      *)
(***************************************************************************)
C17_RegisteredOnce == listenerRegs <= 1 /\ signalRegs <= 1

(***************************************************************************)
(* C18: when mongoose.disconnect() fails, disconnect() throws that error   *)
(* to its caller, and neither the call, nor the failure, nor the catch     *)
(* block changes the flag or the cached promise.                           *)
(***************************************************************************)
C18_CloseFailurePropagates ==
    [][/\ \A p \in Callers :
            disconnect(p) \/ CloseFails(p)
               => UNCHANGED <<isConnected, connectionPromise>>
       /\ jobs # <<>> /\ pc[Head(jobs)] = "disc_err"
            => /\ returned' = Return("disconnect", "CloseError", 0, FALSE, FALSE, NoStatus)
               /\ pc'[Head(jobs)] = "idle"
               /\ UNCHANGED <<isConnected, connectionPromise>>]_vars

\* The close of a connected session failed: disconnect() threw, the flag is
\* still true and the promise still cached.
C18_Witness ==
    /\ returned.op = "disconnect" /\ returned.value = "CloseError"
    /\ isConnected /\ connectionPromise = 1
    /\ readyState = 3
    /\ \A p \in Callers : pc[p] = "idle"

(***************************************************************************)
(* C19: the health handler answers a request that is not a GET with the    *)
(* 405 failure body, having called nothing of the manager and changed      *)
(* nothing of it.  For a GET it calls connect() first; resumed after       *)
(* connect(), it answers with the 503 failure body exactly when connect()  *)
(* threw, and otherwise calls ping(); resumed after ping(), it calls       *)
(* getConnectionStatus() and answers with the 200 success body, which      *)
(* carries what ping() returned and the snapshot.                          *)
(***************************************************************************)
C19_HealthHandler ==
    [][/\ \A method \in Methods \ {"GET"} :
            handler(method)
               => /\ response' = Respond(405, FALSE, FALSE, "none", FALSE, <<>>)
                  /\ handlerPc' = "none"
                  /\ UNCHANGED <<mgr, client, procs, returned, jobs>>
       /\ handler("GET")
            => /\ handlerCalls' = <<"connect">>
               /\ handlerPc' = "connect"
               /\ awaited' = "pending" \/ returned'.op = "connect"
       /\ handlerPc = "connect" /\ handlerPc' # "connect"
            => IF Threw(awaited)
               THEN /\ response' = Respond(503, FALSE, FALSE, "none", FALSE, <<"connect">>)
                    /\ handlerPc' = "none"
                    /\ UNCHANGED <<mgr, client, procs, returned, jobs>>
               ELSE /\ awaited = "handle"
                    /\ handlerPc' = "ping"
                    /\ handlerCalls' = <<"connect", "ping">>
                    /\ awaited' = "pending" \/ returned'.op = "ping"
       /\ handlerPc = "ping" /\ handlerPc' # "ping"
            => /\ awaited \in {"true", "false"}
               /\ handlerPc' = "none"
               /\ returned'.op = "getConnectionStatus"
               /\ response' = Respond(200, TRUE, isConnected, readyStates(readyState),
                                      awaited = "true",
                                      <<"connect", "ping", "getConnectionStatus">>)]_vars

\* A GET answered with the success body: ping() returned true and the
\* snapshot shows a connected manager.
C19_Witness ==
    /\ response.code = 200 /\ response.success
    /\ response.database.pingSuccess
    /\ response.database.isConnected
    /\ response.database.readyState = "connected"
    /\ response.calls = <<"connect", "ping", "getConnectionStatus">>
    /\ handlerPc = "none"

(***************************************************************************)
(* C16: a SIGINT or SIGTERM received once the handlers are registered      *)
(* calls disconnect() at once; process.exit is called only by              *)
(* gracefulShutdown resumed after that disconnect() has ended, with 0 when *)
(* disconnect() returned and 1 when it threw; and every signal is followed *)
(* by the exit of the process.                                             *)
(***************************************************************************)
C16_ExitFollowsDisconnect ==
    [][/\ gracefulShutdown
            => /\ shutdownPc' = "disconnect"
               /\ exitCode' = Running
               /\ pc'[Handler] \in {"disc_wait", "disc_closing"}
                    \/ returned' = Return("disconnect", "void", 0, FALSE, FALSE, NoStatus)
       /\ shutdownPc = "disconnect" /\ jobs # <<>> /\ Head(jobs) = Handler
            => /\ returned'.op = "disconnect"
               /\ awaited' = returned'.value
       /\ exitCode' # exitCode
            => /\ exitCode = Running
               /\ shutdownPc = "disconnect"
               /\ pc[Handler] = "idle"
               /\ \/ awaited = "void" /\ exitCode' = 0
                  \/ awaited = "CloseError" /\ exitCode' = 1]_vars

C16_SignalLeadsToExit ==
    /\ C16_ExitFollowsDisconnect
    /\ (shutdownPc = "disconnect") ~> (exitCode \in {0, 1})

\* The signal came on a connected manager, the close failed, and the process
\* exited with code 1.
C16_Witness ==
    /\ exitCode = 1
    /\ returned.op = "disconnect" /\ returned.value = "CloseError"
    /\ isConnected /\ readyState = 3

====
